---------------------------- MODULE Spec2Model ----------------------------
(***************************************************************************)
(* State-machine model of autosub/ffmpeg_utils.py.                         *)
(*                                                                         *)
(* A path is a sequence of tokens: "/" is the directory separator, "." is  *)
(* a dot character, every other token is a run of characters holding       *)
(* neither.  A command line is a record whose tool field is the text       *)
(* before the first blank.  The file system is the set of paths at which   *)
(* a regular file exists.                                                  *)
(***************************************************************************)
EXTENDS Integers, Sequences, FiniteSets, TLC

VARIABLES
    fs,           \* paths at which a regular file exists
    pyver,        \* major version of the interpreter running the module (2 or 3)
    \* ---- audio_pre_prcs ----
    filename, is_keep, cmds, input_m, ffmpeg_cmd,   \* the arguments
    name_list,    \* os.path.splitext(filename)[0]
    output_list,  \* the artifact list
    i,            \* loop index
    temp,         \* name of the NamedTemporaryFile just allocated
    command,      \* the command line built for the current stage
    pc,           \* position of audio_pre_prcs
    result,       \* value returned, or the error raised
    log,          \* file-system and prompt events of the run, in order
    invoked,      \* the invocations handed to subprocess.check_output, in order
    \* ---- SplitIntoFLACPiece.__call__ ----
    region,       \* the argument
    sp_command,   \* the seek start and the duration put into the command, in ms
    include_before, include_after,   \* the paddings of the object, in ms
    sp_start, sp_end,                \* start and end, in ms
    sp_temp,      \* name of the NamedTemporaryFile, None before it exists
    sp_data,      \* what temp.read() gave
    sp_pc,        \* position of __call__
    sp_result,    \* value returned, or the error raised
    sp_log,       \* file-system and signal events of the call, in order
    \* ---- ffprobe_get_fps ----
    fp_out,       \* what the prober prints
    fp_input_m,   \* whether input_m was supplied
    fp_exit,      \* how the prober invocation ended
    fp_caught,    \* the exception the handler of line 78 caught, "" if none
    fp_nums,      \* num_list
    fp_fps,       \* fps
    fp_resp,      \* the answer to the prompt
    fp_prompts,   \* calls of input_m
    fp_pc,        \* position of ffprobe_get_fps
    fp_result,    \* value returned, or the error raised
    \* ---- two concurrent scratch-mode runs of audio_pre_prcs ----
    cc_runs,      \* per run: position, stage index, stage count, temp, artifact list, outcome
    cc_others,    \* names another user of tempfile holds
    \* ---- source_to_audio ----
    sa_pc,        \* position of the current call
    sa_temp,      \* temp.name of the current call
    sa_result,    \* value returned by the current call, or the error raised
    sa_returned,  \* the paths earlier calls returned, in order
    \* ---- which_exe, check_cmd ----
    we_name,      \* program_name
    we_path,      \* os.environ["PATH"] split at os.pathsep
    we_files,     \* paths at which os.path.isfile is true
    we_xok,       \* paths at which os.access(path, os.X_OK) is true
    we_pc,        \* position of check_cmd
    we_result,    \* what which_exe(program_name) returned
    we_result_exe,\* what which_exe(program_name + ".exe") returned
    chk_result    \* what check_cmd returned

prcsVars == <<filename, is_keep, cmds, input_m, ffmpeg_cmd, name_list, output_list,
              i, temp, command, pc, result, log, invoked>>
spVars == <<region, sp_command, include_before, include_after, sp_start, sp_end, sp_temp, sp_data,
            sp_pc, sp_result, sp_log>>
fpVars == <<fp_out, fp_input_m, fp_exit, fp_caught, fp_nums, fp_fps, fp_resp, fp_prompts,
            fp_pc, fp_result>>
ccVars == <<cc_runs, cc_others>>
saVars == <<sa_pc, sa_temp, sa_result, sa_returned>>
weVars == <<we_name, we_path, we_files, we_xok, we_pc, we_result, we_result_exe, chk_result>>
xVars == <<ccVars, saVars, weVars>>
vars == <<fs, pyver, prcsVars, spVars, fpVars, xVars>>

----------------------------------------------------------------------------
(* Bounds *)

MaxStages == 2      \* longest stage list passed as cmds
MaxPrompts == 2     \* prompts answered with a colliding name before the user gives up colliding

----------------------------------------------------------------------------
(* Paths *)

None == <<"None">>

\* the second argument, whatever the first is
MaxSecond(a, b) == b

Max(a, b) == IF a >= b THEN a ELSE b

\* str.rfind: the last index of token c in p, 0 when absent
LastIndexOf(p, c) ==
    LET hits == {k \in 1..Len(p) : p[k] = c}
    IN  IF hits = {} THEN 0 ELSE CHOOSE k \in hits : \A j \in hits : j <= k

\* os.path.splitext(p)[0]: cut at the last dot of the last component, unless
\* that component holds nothing but dots before it
SplitExtRoot(p) ==
    LET sepIndex == LastIndexOf(p, "/")
        dotIndex == LastIndexOf(p, ".")
    IN  IF dotIndex > sepIndex
           /\ \E k \in (sepIndex + 1)..(dotIndex - 1) : p[k] # "."
        THEN SubSeq(p, 1, dotIndex - 1)
        ELSE p

Digits == <<"1", "2", "3", "4", "5", "6", "7", "8", "9">>

\* the derived name of the first stage, whatever the stage
DerivedNameFirst(stem, k) == stem \o <<"_temp_", "1", ".", "flac">>

\* the derived name without the stage index in it
DerivedNameNoIndex(stem, k) == stem \o <<"_temp_", ".", "flac">>

\* name_list[0] + '_temp_{num}.flac'.format(num=k)
DerivedName(stem, k) == stem \o <<"_temp_", Digits[k], ".", "flac">>

\* the answer without its extension, then the extension of the derived names
RenamedPathPlain(resp) == SplitExtRoot(resp) \o <<".", "flac">>

\* the path adopted after a prompt: splitext(response)[0] + "." + 'temp.flac'
RenamedPath(resp) == SplitExtRoot(resp) \o <<".", "temp", ".", "flac">>

\* os.path.isfile
IsFile(p, files) == p \in files

----------------------------------------------------------------------------
(* Command lines *)

\* what the model draws the stage templates from: one whose text starts with
\* the seven characters 'ffmpeg ' and one whose text starts otherwise
Templates == {[tool |-> "ffmpeg"], [tool |-> "ffmpeg-normalize"]}

\* constants.DEFAULT_AUDIO_PRCS, the built-in stage list
DEFAULT_AUDIO_PRCS ==
    <<[tool |-> "ffmpeg"], [tool |-> "ffmpeg"], [tool |-> "ffmpeg-normalize"]>>

\* the template filled with the two paths the wrong way round
FormatCmdSwapped(tmpl, in, out) == [tool |-> tmpl.tool, in_ |-> out, out_ |-> in]

\* cmds[i - 1].format(in_=..., out_=...)
FormatCmd(tmpl, in, out) == [tool |-> tmpl.tool, in_ |-> in, out_ |-> out]

\* command[:7].replace('ffmpeg ', ffmpeg_cmd + ' ') + command[7:]
\* the first seven characters are 'ffmpeg ' exactly when the leading token is ffmpeg
SpliceTool(cmd, tool) ==
    IF cmd.tool = "ffmpeg" THEN [cmd EXCEPT !.tool = tool] ELSE cmd

\* the stages whose command goes through SpliceTool in keep mode: the splice
\* is in the body of the loop over every stage
KeepSplices(k) == TRUE

\* the stages whose command goes through SpliceTool in scratch mode: the
\* first stage is built before the loop, without the splice
ScratchSplices(k) == k >= 2

\* the removal done after the first stage as well
ScratchRemovesPrevFromFirst(k) == k >= 1

\* the stages after whose invocation scratch mode removes output_list[k - 1]
ScratchRemovesPrev(k) == k >= 2

\* list[k] of a Python list held as a sequence
At(list, k) == list[k + 1]

\* the removal aimed at the source file
ScratchVictimSource(ol, k) == At(ol, 0)

\* the removal aimed at the output of the stage that has just run
ScratchVictimCurrent(ol, k) == At(ol, k)

\* the path scratch mode removes after stage k: output_list[i - 1]
ScratchVictim(ol, k) == At(ol, k - 1)

\* a collision test that finds a file whatever is on disk
KeepCollidesAlways(p, files) == TRUE

\* a collision test that never finds a file
KeepCollidesNever(p, files) == FALSE

\* the condition under which keep mode goes on prompting, and under which it
\* removes the file in the way without a prompt
KeepCollides(p, files) == IsFile(p, files)

\* the shell argument of every subprocess.check_output call of audio_pre_prcs
PrcsShell == FALSE

----------------------------------------------------------------------------
(* audio_pre_prcs: inputs *)

SourceNames ==
    {<<"a", ".", "mp4">>, <<"alt", ".", "temp", ".", "flac">>, <<"d", ".", "x", "/", "a">>}

\* what the user may answer to the rename prompt
Responses ==
    {<<"alt">>, <<"alt", ".", "x", ".", "wav">>, <<"a", "_temp_", "2", ".", "flac">>}

\* what the override of the tool name may be
ToolNames == {"ffmpeg", "avconv"}

\* names tempfile.NamedTemporaryFile may generate
TempNames == {<<"tmp", "/", "t1", ".", "flac">>, <<"tmp", "/", "t2", ".", "flac">>}

StageLists == UNION {[1..n -> Templates] : n \in 0..MaxStages}

\* files that may be on disk before the call
PreExisting(f) ==
    {f} \cup {DerivedName(SplitExtRoot(f), k) : k \in 1..MaxStages}
        \cup {RenamedPath(r) : r \in Responses}

NoCmd == [tool |-> "", in_ |-> <<>>, out_ |-> <<>>]

\* the outcome of a call: not ended yet, a value returned, an error raised
Pending == [k |-> "pending", v |-> None]
Return(v) == [k |-> "return", v |-> v]
Raise(e) == [k |-> "raise", v |-> <<e>>]

Event(op, path, stage) == [op |-> op, path |-> path, stage |-> stage]

Count(seq, op) == Cardinality({k \in 1..Len(seq) : seq[k].op = op})

NoSplitCmd == [ss |-> 0, t |-> 0, out |-> None]

SpIdle ==
    /\ region = <<>> /\ sp_command = NoSplitCmd /\ include_before = 0 /\ include_after = 0
    /\ sp_start = 0 /\ sp_end = 0 /\ sp_temp = None /\ sp_data = None
    /\ sp_pc = "idle" /\ sp_result = Pending /\ sp_log = <<>>

FpIdle ==
    /\ fp_out = <<>> /\ fp_input_m = FALSE /\ fp_pc = "idle" /\ fp_nums = <<>>
    /\ fp_exit = "" /\ fp_caught = ""
    /\ fp_fps = <<0, 1>> /\ fp_result = Pending /\ fp_prompts = 0 /\ fp_resp = <<>>

CcIdle == cc_runs = <<>> /\ cc_others = {}

SaIdle == sa_pc = "idle" /\ sa_temp = None /\ sa_result = Pending /\ sa_returned = <<>>

WeIdle ==
    /\ we_name = <<>> /\ we_path = <<>> /\ we_files = {} /\ we_xok = {} /\ we_pc = "idle"
    /\ we_result = None /\ we_result_exe = None /\ chk_result = None

XIdle == CcIdle /\ SaIdle /\ WeIdle

PrcsIdle ==
    /\ filename = None /\ is_keep = FALSE /\ cmds = <<>> /\ input_m = FALSE
    /\ ffmpeg_cmd = "ffmpeg" /\ name_list = None /\ output_list = <<>>
    /\ i = 0 /\ temp = None /\ command = NoCmd /\ pc = "idle"
    /\ result = Pending /\ log = <<>> /\ invoked = <<>>

Init ==
    /\ pyver = 3
    /\ filename \in SourceNames
    /\ is_keep \in BOOLEAN
    /\ cmds \in StageLists
    /\ input_m \in BOOLEAN
    /\ ffmpeg_cmd \in ToolNames
    /\ fs \in SUBSET PreExisting(filename)
    /\ name_list = None /\ output_list = <<>> /\ i = 0 /\ temp = None
    /\ command = NoCmd /\ pc = "start" /\ result = Pending
    /\ log = <<>> /\ invoked = <<>>
    /\ SpIdle /\ FpIdle /\ XIdle

----------------------------------------------------------------------------
(* audio_pre_prcs *)

\* lines 160-165: split the name, seed the list, default the stage list, branch
PrcsStart ==
    /\ pc = "start"
    /\ name_list' = SplitExtRoot(filename)
    /\ output_list' = <<filename>>
    /\ cmds' = IF cmds = <<>> THEN DEFAULT_AUDIO_PRCS ELSE cmds
    /\ i' = 1
    /\ pc' = IF is_keep THEN "k_loop" ELSE "s_alloc"
    /\ UNCHANGED <<fs, pyver, filename, is_keep, input_m, ffmpeg_cmd, temp, command,
                   result, log, invoked, spVars, fpVars, xVars>>

\* lines 166-170, 179: the next round of the keep loop appends the derived name
KeepDerive ==
    /\ pc = "k_loop"
    /\ i <= Len(cmds)
    /\ output_list' = Append(output_list, DerivedName(name_list, i))
    /\ pc' = IF input_m THEN "k_while" ELSE "k_remove"
    /\ UNCHANGED <<fs, pyver, filename, is_keep, cmds, input_m, ffmpeg_cmd, name_list,
                   i, temp, command, result, log, invoked, spVars, fpVars, xVars>>

\* lines 171-178: one round of the while loop: prompt and adopt the answer
KeepPrompt ==
    /\ pc = "k_while"
    /\ KeepCollides(At(output_list, i), fs)
    /\ Count(log, "prompt") < MaxPrompts
    /\ \E resp \in Responses :
        /\ output_list' = [output_list EXCEPT ![i + 1] = RenamedPath(resp)]
        /\ log' = log \o <<Event("prompt", At(output_list, i), i),
                            Event("answer", resp, i)>>
    /\ UNCHANGED <<fs, pyver, filename, is_keep, cmds, input_m, ffmpeg_cmd, name_list,
                   i, temp, command, pc, result, invoked, spVars, fpVars, xVars>>

\* line 171: the while condition is false
KeepPromptDone ==
    /\ pc = "k_while"
    /\ ~KeepCollides(At(output_list, i), fs)
    /\ pc' = "k_cmd"
    /\ UNCHANGED <<fs, pyver, filename, is_keep, cmds, input_m, ffmpeg_cmd, name_list,
                   output_list, i, temp, command, result, log, invoked, spVars, fpVars, xVars>>

\* lines 180-181: without input_m the file in the way is removed
KeepRemove ==
    /\ pc = "k_remove"
    /\ IF KeepCollides(At(output_list, i), fs)
       THEN /\ fs' = fs \ {At(output_list, i)}
            /\ log' = Append(log, Event("rm_collision", At(output_list, i), i))
       ELSE UNCHANGED <<fs, log>>
    /\ pc' = "k_cmd"
    /\ UNCHANGED <<pyver, filename, is_keep, cmds, input_m, ffmpeg_cmd, name_list,
                   output_list, i, temp, command, result, invoked, spVars, fpVars, xVars>>

\* lines 183-186: build the command of a keep-mode stage
KeepCommand ==
    /\ pc = "k_cmd"
    /\ LET c == FormatCmd(At(cmds, i - 1), At(output_list, i - 1), At(output_list, i))
       IN  command' = IF KeepSplices(i) THEN SpliceTool(c, ffmpeg_cmd) ELSE c
    /\ pc' = "invoke"
    /\ UNCHANGED <<fs, pyver, filename, is_keep, cmds, input_m, ffmpeg_cmd, name_list,
                   output_list, i, temp, result, log, invoked, spVars, fpVars, xVars>>

\* line 166: the keep loop is over; line 200: the scratch loop is over
LoopDone ==
    /\ pc \in {"k_loop", "s_loop"}
    /\ i > Len(cmds)
    /\ pc' = "return"
    /\ UNCHANGED <<fs, pyver, filename, is_keep, cmds, input_m, ffmpeg_cmd, name_list,
                   output_list, i, temp, command, result, log, invoked, spVars, fpVars, xVars>>

\* line 200: the next round of the scratch loop
ScratchNext ==
    /\ pc = "s_loop"
    /\ i <= Len(cmds)
    /\ pc' = "s_alloc"
    /\ UNCHANGED <<fs, pyver, filename, is_keep, cmds, input_m, ffmpeg_cmd, name_list,
                   output_list, i, temp, command, result, log, invoked, spVars, fpVars, xVars>>

\* lines 190-192, 201-203: NamedTemporaryFile(delete=False) creates a file
\* under a name at which nothing exists, and the handle is closed
ScratchAlloc ==
    /\ pc = "s_alloc"
    /\ \E t \in TempNames \ fs :
        /\ temp' = t
        /\ fs' = fs \cup {t}
        /\ log' = Append(log, Event("mktemp", t, i))
    /\ pc' = "s_remove"
    /\ UNCHANGED <<pyver, filename, is_keep, cmds, input_m, ffmpeg_cmd, name_list,
                   output_list, i, command, result, invoked, spVars, fpVars, xVars>>

\* lines 193-195, 204-206: remove the file just created, append its name
ScratchRemoveTemp ==
    /\ pc = "s_remove"
    /\ IF IsFile(temp, fs)
       THEN /\ fs' = fs \ {temp}
            /\ log' = Append(log, Event("rm_placeholder", temp, i))
       ELSE UNCHANGED <<fs, log>>
    /\ output_list' = Append(output_list, temp)
    /\ pc' = "s_cmd"
    /\ UNCHANGED <<pyver, filename, is_keep, cmds, input_m, ffmpeg_cmd, name_list,
                   i, temp, command, result, invoked, spVars, fpVars, xVars>>

\* lines 196-198, 207-210: build the command of a scratch-mode stage
ScratchCommand ==
    /\ pc = "s_cmd"
    /\ LET c == FormatCmd(At(cmds, i - 1), At(output_list, i - 1), At(output_list, i))
       IN  command' = IF ScratchSplices(i) THEN SpliceTool(c, ffmpeg_cmd) ELSE c
    /\ pc' = "invoke"
    /\ UNCHANGED <<fs, pyver, filename, is_keep, cmds, input_m, ffmpeg_cmd, name_list,
                   output_list, i, temp, result, log, invoked, spVars, fpVars, xVars>>

\* lines 187, 199, 211: subprocess.check_output starts the process
InvokeStart ==
    /\ pc = "invoke"
    /\ invoked' = Append(invoked, [stage |-> i, cmd |-> command, shell |-> PrcsShell,
                                   out_existed |-> IsFile(command.out_, fs)])
    /\ pc' = "run"
    /\ UNCHANGED <<fs, pyver, filename, is_keep, cmds, input_m, ffmpeg_cmd, name_list,
                   output_list, i, temp, command, result, log, spVars, fpVars, xVars>>

\* lines 187, 199, 211: the process cannot be started, check_output raises OSError
InvokeNoStart ==
    /\ pc = "invoke"
    /\ invoked' = Append(invoked, [stage |-> i, cmd |-> command, shell |-> PrcsShell,
                                   out_existed |-> IsFile(command.out_, fs)])
    /\ result' = Raise("OSError")
    /\ pc' = "raised"
    /\ UNCHANGED <<fs, pyver, filename, is_keep, cmds, input_m, ffmpeg_cmd, name_list,
                   output_list, i, temp, command, log, spVars, fpVars, xVars>>

\* the running tool writes the file named by out_
ToolWrite ==
    /\ pc = "run"
    /\ fs' = fs \cup {command.out_}
    /\ log' = Append(log, Event("write", command.out_, i))
    /\ pc' = "written"
    /\ UNCHANGED <<pyver, filename, is_keep, cmds, input_m, ffmpeg_cmd, name_list,
                   output_list, i, temp, command, result, invoked, spVars, fpVars, xVars>>

\* the tool exits with status 0 after writing its output; control goes on to
\* line 166 (keep), line 200 (scratch, first stage) or line 212 (scratch, later)
ToolExitOk ==
    /\ pc = "written"
    /\ IF is_keep
       THEN i' = i + 1 /\ pc' = "k_loop"
       ELSE IF ScratchRemovesPrev(i)
            THEN i' = i /\ pc' = "s_del"
            ELSE i' = i + 1 /\ pc' = "s_loop"
    /\ UNCHANGED <<fs, pyver, filename, is_keep, cmds, input_m, ffmpeg_cmd, name_list,
                   output_list, temp, command, result, log, invoked, spVars, fpVars, xVars>>

\* the tool exits with a status other than 0, before or after it wrote to
\* out_: check_output raises CalledProcessError, which nothing here catches
ToolExitFail ==
    /\ pc \in {"run", "written"}
    /\ result' = Raise("CalledProcessError")
    /\ pc' = "raised"
    /\ UNCHANGED <<fs, pyver, filename, is_keep, cmds, input_m, ffmpeg_cmd, name_list,
                   output_list, i, temp, command, log, invoked, spVars, fpVars, xVars>>

\* line 212: os.remove(output_list[i - 1]); it raises OSError when no file is there
ScratchRemovePrev ==
    /\ pc = "s_del"
    /\ LET victim == ScratchVictim(output_list, i)
       IN  IF IsFile(victim, fs)
           THEN /\ fs' = fs \ {victim}
                /\ log' = Append(log, Event("rm_prev", victim, i))
                /\ i' = i + 1
                /\ pc' = "s_loop"
                /\ UNCHANGED result
           ELSE /\ result' = Raise("OSError")
                /\ pc' = "raised"
                /\ UNCHANGED <<fs, log, i>>
    /\ UNCHANGED <<pyver, filename, is_keep, cmds, input_m, ffmpeg_cmd, name_list,
                   output_list, temp, command, invoked, spVars, fpVars, xVars>>

\* line 214: return output_list[-1]
PrcsReturn ==
    /\ pc = "return"
    /\ result' = Return(output_list[Len(output_list)])
    /\ pc' = "done"
    /\ UNCHANGED <<fs, pyver, filename, is_keep, cmds, input_m, ffmpeg_cmd, name_list,
                   output_list, i, temp, command, log, invoked, spVars, fpVars, xVars>>

Next ==
    \/ PrcsStart
    \/ KeepDerive \/ KeepPrompt \/ KeepPromptDone \/ KeepRemove \/ KeepCommand
    \/ LoopDone
    \/ ScratchNext \/ ScratchAlloc \/ ScratchRemoveTemp \/ ScratchCommand
    \/ InvokeStart \/ InvokeNoStart \/ ToolWrite \/ ToolExitOk \/ ToolExitFail
    \/ ScratchRemovePrev
    \/ PrcsReturn

Spec == Init /\ [][Next]_vars

----------------------------------------------------------------------------
(* Properties of audio_pre_prcs *)

Running == pc \notin {"idle", "done", "raised"}

\* paths this run allocated with NamedTemporaryFile at which a file exists
ScratchOnDisk == {log[k].path : k \in {j \in 1..Len(log) : log[j].op = "mktemp"}} \cap fs

Last(seq) == seq[Len(seq)]

RemoveOps == {"rm_prev", "rm_placeholder", "rm_collision"}

\* C1 as stated: in every state of a scratch-mode run exactly one artifact of
\* the run is on disk.
C1_ExactlyOneAlways ==
    (~is_keep /\ Running) => Cardinality(ScratchOnDisk) = 1

\* C1 as amended: between the stages of a scratch-mode run (a stage has
\* succeeded and the artifact before it has been removed) and at return,
\* exactly one artifact of the run is on disk, the one produced last; in every
\* other state of the run there are at most two, and none before the first
\* stage is set up.
C1_OneBetweenStages ==
    ~is_keep =>
        /\ pc \in {"s_loop", "return", "done"} => ScratchOnDisk = {Last(output_list)}
        /\ pc # "idle" => Cardinality(ScratchOnDisk) <= 2
        /\ pc = "start" => ScratchOnDisk = {}

C1_Witness ==
    /\ ~is_keep /\ pc = "s_loop" /\ i = 3
    /\ Count(log, "rm_prev") = 1
    /\ ScratchOnDisk = {At(output_list, 2)}

\* C2: a scratch-mode run of N stages that all succeed has N stage outputs
\* written at N allocated names and removes N-1 of them, the outputs of stages
\* 1..N-1, leaving the last; no removal of the run is aimed at the source file.
C2_StageCount ==
    ~is_keep =>
        /\ \A k \in 1..Len(log) : log[k].op \in RemoveOps => log[k].path # filename
        /\ pc = "done" =>
            /\ Len(cmds) >= 1
            /\ Count(log, "mktemp") = Len(cmds)
            /\ Count(log, "write") = Len(cmds)
            /\ Count(log, "rm_prev") = Len(cmds) - 1
            /\ \A k \in 1..Len(log) :
                   log[k].op = "rm_prev" =>
                       /\ log[k].stage \in 2..Len(cmds)
                       /\ log[k].path = At(output_list, log[k].stage - 1)
            /\ Last(output_list) \in fs

C2_Witness ==
    /\ ~is_keep /\ pc = "done" /\ Len(cmds) = 2 /\ filename \in fs
    /\ Count(log, "write") = 2 /\ Count(log, "rm_prev") = 1

\* the source names of the model without their extension
C3_Stem(f) ==
    CASE f = <<"a", ".", "mp4">> -> <<"a">>
      [] f = <<"alt", ".", "temp", ".", "flac">> -> <<"alt", ".", "temp">>
      [] OTHER -> f

\* C3: after a keep-mode run in which every stage succeeded, the output of
\* every stage is on disk, and a stage that was not renamed has the source
\* name without its extension, then _temp_<i>, then .flac as its path.
C3_KeptOutputs ==
    (is_keep /\ pc = "done") =>
        \A k \in 1..Len(cmds) :
            /\ At(output_list, k) \in fs
            /\ (\A j \in 1..Len(log) : ~(log[j].op = "prompt" /\ log[j].stage = k))
                  => At(output_list, k) =
                         C3_Stem(filename) \o <<"_temp_", Digits[k], ".", "flac">>

C3_Witness ==
    /\ is_keep /\ pc = "done" /\ Len(cmds) = 2 /\ log # <<>>
    /\ \A j \in 1..Len(log) : log[j].op # "prompt"
    /\ At(output_list, 2) = <<"a", "_temp_", "2", ".", "flac">>

\* C4: in keep mode with input_m the loop is left exactly when no file is at
\* the path of the stage (a colliding path leads to another prompt, a free
\* one to the command), and in every run the output path of an invocation
\* names no file at the moment the stage is invoked.
C4_NoCollisionAtInvoke ==
    /\ [](\A k \in 1..Len(invoked) : ~invoked[k].out_existed)
    /\ [][(pc = "k_while" /\ At(output_list, i) \in fs)
             => (pc' = "k_while" /\ Count(log', "prompt") = Count(log, "prompt") + 1)]_vars
    /\ [][(pc = "k_while" /\ At(output_list, i) \notin fs) => pc' = "k_cmd"]_vars

C4_Witness ==
    /\ is_keep /\ input_m /\ pc = "run"
    /\ Count(log, "prompt") = 2
    /\ ~invoked[Len(invoked)].out_existed

\* C5: the override of the tool name is spliced into the command of stage 1,
\* in both modes, and into the command of no later stage.
C5_FirstStageOnly ==
    \A k \in 1..Len(invoked) :
        LET tmpl == At(cmds, invoked[k].stage - 1)
        IN  IF invoked[k].stage = 1 /\ tmpl.tool = "ffmpeg"
            THEN invoked[k].cmd.tool = ffmpeg_cmd
            ELSE invoked[k].cmd.tool = tmpl.tool

----------------------------------------------------------------------------
(* SplitIntoFLACPiece.__call__ *)

\* a handler that catches every exception
SplitCatchesAll(exc) == TRUE

\* line 55: except KeyboardInterrupt
SplitCatches(exc) == exc = "KeyboardInterrupt"

\* how the call ends when exc is raised inside the try block of lines 38-53
SplitExcept(exc) == IF SplitCatches(exc) THEN Return(None) ELSE Raise(exc)

\* the regions the model draws from; the last is not a pair
Regions == {<<0, 0>>, <<100, 2000>>, <<1000, 2000>>, <<1000>>}

\* the paddings the model draws from, in ms (0.25 s is the default)
Paddings == {-250, 0, 250}

\* the positions of __call__ inside its try block
SplitSteps == {"unpack", "compute", "alloc", "command", "invoke", "run", "written",
               "read", "close", "unlink", "return"}

InitFLAC ==
    /\ pyver = 3
    /\ fs \in SUBSET {<<"src", ".", "mp4">>}
    /\ region \in Regions
    /\ include_before \in Paddings /\ include_after \in Paddings
    /\ sp_command = NoSplitCmd
    /\ sp_start = 0 /\ sp_end = 0 /\ sp_temp = None /\ sp_data = None
    /\ sp_pc = "unpack" /\ sp_result = Pending /\ sp_log = <<>>
    /\ PrcsIdle /\ FpIdle /\ XIdle

\* line 39: start_ms, end_ms = region; a region that is no pair raises ValueError
SplitUnpack ==
    /\ sp_pc = "unpack"
    /\ IF Len(region) = 2
       THEN /\ sp_start' = region[1] /\ sp_end' = region[2]
            /\ sp_pc' = "compute"
            /\ UNCHANGED <<sp_result, sp_log>>
       ELSE /\ sp_result' = SplitExcept("ValueError")
            /\ sp_pc' = IF SplitCatches("ValueError") THEN "done" ELSE "raised"
            /\ sp_log' = Append(sp_log, Event("bad_region", None, 0))
            /\ UNCHANGED <<sp_start, sp_end>>
    /\ UNCHANGED <<fs, pyver, region, sp_command, include_before, include_after, sp_temp, sp_data,
                   prcsVars, fpVars, xVars>>

\* lines 40-43: seconds are held as ms; the start is padded and clamped, the end padded
SplitCompute ==
    /\ sp_pc = "compute"
    /\ sp_start' = Max(0, sp_start - include_before)
    /\ sp_end' = sp_end + include_after
    /\ sp_pc' = "alloc"
    /\ UNCHANGED <<fs, pyver, region, sp_command, include_before, include_after, sp_temp, sp_data,
                   sp_result, sp_log, prcsVars, fpVars, xVars>>

\* line 44: NamedTemporaryFile(suffix='.flac', delete=False) creates the file
SplitAlloc ==
    /\ sp_pc = "alloc"
    /\ \E t \in TempNames \ fs :
        /\ sp_temp' = t
        /\ fs' = fs \cup {t}
        /\ sp_log' = Append(sp_log, Event("mktemp", t, 0))
    /\ sp_pc' = "command"
    /\ UNCHANGED <<pyver, region, sp_command, include_before, include_after, sp_start, sp_end,
                   sp_data, sp_result, prcsVars, fpVars, xVars>>

\* lines 45-47: the command, with str(start) after -ss and str(end - start) after -t
SplitCommand ==
    /\ sp_pc = "command"
    /\ sp_command' = [ss |-> sp_start, t |-> sp_end - sp_start, out |-> sp_temp]
    /\ sp_pc' = "invoke"
    /\ UNCHANGED <<fs, pyver, region, include_before, include_after, sp_start, sp_end,
                   sp_temp, sp_data, sp_result, sp_log, prcsVars, fpVars, xVars>>

\* lines 48-49: check_output starts the process
SplitInvokeStart ==
    /\ sp_pc = "invoke"
    /\ sp_pc' = "run"
    /\ UNCHANGED <<fs, pyver, region, sp_command, include_before, include_after, sp_start, sp_end,
                   sp_temp, sp_data, sp_result, sp_log, prcsVars, fpVars, xVars>>

\* line 49: the process cannot be started, check_output raises OSError
SplitInvokeNoStart ==
    /\ sp_pc = "invoke"
    /\ sp_result' = SplitExcept("OSError")
    /\ sp_pc' = IF SplitCatches("OSError") THEN "done" ELSE "raised"
    /\ sp_log' = Append(sp_log, Event("no_start", sp_temp, 0))
    /\ UNCHANGED <<fs, pyver, region, sp_command, include_before, include_after, sp_start, sp_end,
                   sp_temp, sp_data, prcsVars, fpVars, xVars>>

\* the running tool writes the clip to temp.name (-y: over the file there)
SplitToolWrite ==
    /\ sp_pc = "run"
    /\ fs' = fs \cup {sp_temp}
    /\ sp_log' = Append(sp_log, Event("write", sp_temp, 0))
    /\ sp_pc' = "written"
    /\ UNCHANGED <<pyver, region, sp_command, include_before, include_after, sp_start, sp_end,
                   sp_temp, sp_data, sp_result, prcsVars, fpVars, xVars>>

\* line 49: the tool exits with status 0
SplitToolExitOk ==
    /\ sp_pc = "written"
    /\ sp_pc' = "read"
    /\ UNCHANGED <<fs, pyver, region, sp_command, include_before, include_after, sp_start, sp_end,
                   sp_temp, sp_data, sp_result, sp_log, prcsVars, fpVars, xVars>>

\* line 49: the tool exits with another status, check_output raises CalledProcessError
SplitToolExitFail ==
    /\ sp_pc \in {"run", "written"}
    /\ sp_result' = SplitExcept("CalledProcessError")
    /\ sp_pc' = IF SplitCatches("CalledProcessError") THEN "done" ELSE "raised"
    /\ sp_log' = Append(sp_log, Event("exit_fail", sp_temp, 0))
    /\ UNCHANGED <<fs, pyver, region, sp_command, include_before, include_after, sp_start, sp_end,
                   sp_temp, sp_data, prcsVars, fpVars, xVars>>

\* line 50: read_data = temp.read()
SplitRead ==
    /\ sp_pc = "read"
    /\ sp_data' = <<"bytes">>
    /\ sp_pc' = "close"
    /\ UNCHANGED <<fs, pyver, region, sp_command, include_before, include_after, sp_start, sp_end,
                   sp_temp, sp_result, sp_log, prcsVars, fpVars, xVars>>

\* line 51: temp.close()
SplitClose ==
    /\ sp_pc = "close"
    /\ sp_pc' = "unlink"
    /\ UNCHANGED <<fs, pyver, region, sp_command, include_before, include_after, sp_start, sp_end,
                   sp_temp, sp_data, sp_result, sp_log, prcsVars, fpVars, xVars>>

\* line 52: os.unlink(temp.name)
SplitUnlink ==
    /\ sp_pc = "unlink"
    /\ fs' = fs \ {sp_temp}
    /\ sp_log' = Append(sp_log, Event("unlink", sp_temp, 0))
    /\ sp_pc' = "return"
    /\ UNCHANGED <<pyver, region, sp_command, include_before, include_after, sp_start, sp_end,
                   sp_temp, sp_data, sp_result, prcsVars, fpVars, xVars>>

\* line 53: return read_data
SplitReturn ==
    /\ sp_pc = "return"
    /\ sp_result' = Return(sp_data)
    /\ sp_pc' = "done"
    /\ UNCHANGED <<fs, pyver, region, sp_command, include_before, include_after, sp_start, sp_end,
                   sp_temp, sp_data, sp_log, prcsVars, fpVars, xVars>>

\* lines 55-56: KeyboardInterrupt is raised at whatever line of the try block
\* is executing
SplitInterrupt ==
    /\ sp_pc \in SplitSteps
    /\ sp_result' = SplitExcept("KeyboardInterrupt")
    /\ sp_pc' = IF SplitCatches("KeyboardInterrupt") THEN "done" ELSE "raised"
    /\ sp_log' = Append(sp_log, Event("interrupt", <<sp_pc>>, 0))
    /\ UNCHANGED <<fs, pyver, region, sp_command, include_before, include_after, sp_start, sp_end,
                   sp_temp, sp_data, prcsVars, fpVars, xVars>>

NextFLAC ==
    \/ SplitUnpack \/ SplitCompute \/ SplitAlloc \/ SplitCommand
    \/ SplitInvokeStart \/ SplitInvokeNoStart
    \/ SplitToolWrite \/ SplitToolExitOk \/ SplitToolExitFail
    \/ SplitRead \/ SplitClose \/ SplitUnlink \/ SplitReturn
    \/ SplitInterrupt

SpecFLAC == InitFLAC /\ [][NextFLAC]_vars


\* C6 as stated: however a call of __call__ ends, the temporary file it
\* allocated is no longer on disk.
C6_TempAlwaysDeleted ==
    (sp_pc \in {"done", "raised"} /\ sp_temp # None) => sp_temp \notin fs

HasEvent(seq, op) == \E k \in 1..Len(seq) : seq[k].op = op

\* C7: a call in which KeyboardInterrupt arrived, at whatever step, ends by
\* returning None; a call whose tool exited non-zero or could not be started
\* ends by raising that error; and None is returned in no other case.
C7_OnlyInterruptSwallowed ==
    sp_pc \in {"done", "raised"} =>
        /\ HasEvent(sp_log, "interrupt") => (sp_pc = "done" /\ sp_result = Return(None))
        /\ HasEvent(sp_log, "exit_fail") =>
               (sp_pc = "raised" /\ sp_result = Raise("CalledProcessError"))
        /\ HasEvent(sp_log, "no_start") => (sp_pc = "raised" /\ sp_result = Raise("OSError"))
        /\ sp_result = Return(None) => HasEvent(sp_log, "interrupt")
        /\ sp_result.k = "raise" => ~HasEvent(sp_log, "interrupt")

C7_Witness ==
    /\ sp_pc = "done" /\ sp_result = Return(None)
    /\ sp_log[Len(sp_log)] = Event("interrupt", <<"read">>, 0)
    /\ HasEvent(sp_log, "write")

----------------------------------------------------------------------------
(* ffprobe_get_fps *)

MaxOutLen == 5      \* longest prober output, in characters

\* the characters of a prober output: digits, a character that is no digit,
\* and a byte that is no UTF-8
OutChars == {"0", "1", "/", "xFF"}

DigitValue(c) == IF c = "1" THEN 1 ELSE 0

IsDigit(c) == c \in {"0", "1"}

\* input_str.decode('utf-8') raises UnicodeDecodeError, a ValueError
Decodes(out) == \A k \in 1..Len(out) : out[k] # "xFF"

\* re.findall(r'\d+', text) then map(int, ...): the values of the maximal
\* runs of digits, left to right; cur is the run being read, if any
RECURSIVE FindInts(_, _, _, _)
FindInts(text, k, inRun, cur) ==
    IF k > Len(text)
    THEN IF inRun THEN <<cur>> ELSE <<>>
    ELSE IF IsDigit(text[k])
         THEN FindInts(text, k + 1, TRUE, (IF inRun THEN cur * 10 ELSE 0) + DigitValue(text[k]))
         ELSE (IF inRun THEN <<cur>> ELSE <<>>) \o FindInts(text, k + 1, FALSE, 0)

NumList(out) == FindInts(out, 1, FALSE, 0)

\* line 73: len(list(num_list)) == 2
FoundTwo(nums) == Len(nums) = 2

\* a float as the pair <<n, d>> standing for n/d; <<0, 0>> is nan and
\* <<1, 0>>, <<-1, 0>> are the infinities
Zero == <<0, 1>>
NaN == <<0, 0>>

\* the exceptions the handler of line 78 catches; UnicodeDecodeError is a ValueError
FpCatches(exc) == exc \in {"CalledProcessError", "ValueError", "UnicodeDecodeError"}

\* what the user may answer to the frame-rate prompt
FpResponses ==
    {<<"2", "5">>, <<"2", ".", "5">>, <<"-", "5">>, <<"0">>, <<"-", "0", ".", "0">>,
     <<"a", "b", "c">>, <<>>, <<".">>, <<"n", "a", "n">>, <<"i", "n", "f">>,
     <<"-", "i", "n", "f">>}

DecDigits == {"0", "1", "2", "3", "4", "5", "6", "7", "8", "9"}

DecValue(c) ==
    CASE c = "0" -> 0 [] c = "1" -> 1 [] c = "2" -> 2 [] c = "3" -> 3 [] c = "4" -> 4
      [] c = "5" -> 5 [] c = "6" -> 6 [] c = "7" -> 7 [] c = "8" -> 8 [] OTHER -> 9

RECURSIVE DigitsValue(_)
DigitsValue(ds) ==
    IF ds = <<>> THEN 0
    ELSE DigitsValue(SubSeq(ds, 1, Len(ds) - 1)) * 10 + DecValue(ds[Len(ds)])

RECURSIVE Pow10(_)
Pow10(n) == IF n = 0 THEN 1 ELSE 10 * Pow10(n - 1)

\* float(text): an optional sign, then nan, inf, or digits with at most one
\* dot and at least one digit; anything else raises ValueError
ParseFloat(text) ==
    LET signed == text # <<>> /\ text[1] \in {"-", "+"}
        sign == IF signed /\ text[1] = "-" THEN -1 ELSE 1
        body == IF signed THEN SubSeq(text, 2, Len(text)) ELSE text
        dots == {k \in 1..Len(body) : body[k] = "."}
        digs == [k \in 1..Len(body) |-> body[k] \in DecDigits]
        noDot == [k \in 1..(Len(body) - Cardinality(dots)) |->
                     body[IF dots # {} /\ k >= CHOOSE d \in dots : TRUE THEN k + 1 ELSE k]]
        frac == IF dots = {} THEN 0 ELSE Len(body) - (CHOOSE d \in dots : TRUE)
    IN  IF body = <<"n", "a", "n">> THEN [ok |-> TRUE, v |-> NaN]
        ELSE IF body = <<"i", "n", "f">> THEN [ok |-> TRUE, v |-> <<sign, 0>>]
        ELSE IF /\ Cardinality(dots) <= 1
                /\ \A k \in 1..Len(body) : k \in dots \/ digs[k]
                /\ Len(body) > Cardinality(dots)
             THEN [ok |-> TRUE, v |-> <<sign * DigitsValue(noDot), Pow10(frac)>>]
             ELSE [ok |-> FALSE, v |-> Zero]

\* line 86: fps <= 0.0, which is false of nan
FpRejects(v) == v # NaN /\ v[1] <= 0


Outputs == UNION {[1..n -> OutChars] : n \in 0..MaxOutLen}

InitFps ==
    /\ pyver \in {2, 3}
    /\ fs = {}
    /\ fp_out \in Outputs
    /\ fp_input_m \in BOOLEAN
    /\ fp_exit = "" /\ fp_caught = "" /\ fp_nums = <<>> /\ fp_fps = Zero
    /\ fp_resp = <<>> /\ fp_prompts = 0 /\ fp_pc = "invoke" /\ fp_result = Pending
    /\ PrcsIdle /\ SpIdle /\ XIdle

\* exc is raised inside the try block of lines 66-76: lines 78-92 take over
\* when the handler catches it, and it leaves the function otherwise
FpExcept(exc) ==
    IF FpCatches(exc)
    THEN /\ fp_caught' = exc
         /\ fp_pc' = "recover"
         /\ UNCHANGED fp_result
    ELSE /\ fp_result' = Raise(exc)
         /\ fp_pc' = "raised"
         /\ UNCHANGED fp_caught

\* line 71: the prober cannot be started, check_output raises OSError
FpNoStart ==
    /\ fp_pc = "invoke"
    /\ fp_exit' = "nostart"
    /\ FpExcept("OSError")
    /\ UNCHANGED <<fs, pyver, fp_out, fp_input_m, fp_nums, fp_fps, fp_resp, fp_prompts,
                   prcsVars, spVars, xVars>>

\* line 71: the prober exits with a status other than 0
FpExitFail ==
    /\ fp_pc = "invoke"
    /\ fp_exit' = "fail"
    /\ FpExcept("CalledProcessError")
    /\ UNCHANGED <<fs, pyver, fp_out, fp_input_m, fp_nums, fp_fps, fp_resp, fp_prompts,
                   prcsVars, spVars, xVars>>

\* line 71: the prober exits with status 0 and its output is input_str
FpExitOk ==
    /\ fp_pc = "invoke"
    /\ fp_exit' = "ok"
    /\ fp_pc' = "parse"
    /\ UNCHANGED <<fs, pyver, fp_out, fp_input_m, fp_caught, fp_nums, fp_fps, fp_resp,
                   fp_prompts, fp_result, prcsVars, spVars, xVars>>

\* lines 72-76: decode, extract the integers, divide.  Under Python 3
\* num_list is a map object: list(num_list) uses it up and num_list[0] raises
\* TypeError.  Under Python 2 it is a list and a zero denominator raises
\* ZeroDivisionError.
FpParse ==
    /\ fp_pc = "parse"
    /\ IF ~Decodes(fp_out)
       THEN FpExcept("UnicodeDecodeError") /\ UNCHANGED <<fp_nums, fp_fps>>
       ELSE /\ fp_nums' = NumList(fp_out)
            /\ IF FoundTwo(NumList(fp_out))
               THEN IF pyver = 3
                    THEN FpExcept("TypeError") /\ UNCHANGED fp_fps
                    ELSE IF NumList(fp_out)[2] = 0
                         THEN FpExcept("ZeroDivisionError") /\ UNCHANGED fp_fps
                         ELSE /\ fp_fps' = <<NumList(fp_out)[1], NumList(fp_out)[2]>>
                              /\ fp_pc' = "return"
                              /\ UNCHANGED <<fp_caught, fp_result>>
               ELSE FpExcept("ValueError") /\ UNCHANGED fp_fps
    /\ UNCHANGED <<fs, pyver, fp_out, fp_input_m, fp_exit, fp_resp, fp_prompts,
                   prcsVars, spVars, xVars>>

\* lines 79-81, 91-92: the diagnostic, then the prompt or return 0.0
FpRecover ==
    /\ fp_pc = "recover"
    /\ IF fp_input_m
       THEN fp_pc' = "prompt" /\ UNCHANGED fp_result
       ELSE fp_pc' = "done" /\ fp_result' = Return(Zero)
    /\ UNCHANGED <<fs, pyver, fp_out, fp_input_m, fp_exit, fp_caught, fp_nums, fp_fps,
                   fp_resp, fp_prompts, prcsVars, spVars, xVars>>

\* lines 82-90: one prompt; float() of the answer, 0.0 when it raises
\* ValueError or the value is rejected
FpPrompt ==
    /\ fp_pc = "prompt"
    /\ \E resp \in FpResponses :
        /\ fp_resp' = resp
        /\ fp_fps' = IF ParseFloat(resp).ok /\ ~FpRejects(ParseFloat(resp).v)
                     THEN ParseFloat(resp).v
                     ELSE Zero
    /\ fp_prompts' = fp_prompts + 1
    /\ fp_pc' = "return"
    /\ UNCHANGED <<fs, pyver, fp_out, fp_input_m, fp_exit, fp_caught, fp_nums,
                   fp_result, prcsVars, spVars, xVars>>

\* line 94: return fps
FpReturn ==
    /\ fp_pc = "return"
    /\ fp_result' = Return(fp_fps)
    /\ fp_pc' = "done"
    /\ UNCHANGED <<fs, pyver, fp_out, fp_input_m, fp_exit, fp_caught, fp_nums, fp_fps,
                   fp_resp, fp_prompts, prcsVars, spVars, xVars>>

NextFps ==
    \/ FpNoStart \/ FpExitFail \/ FpExitOk
    \/ FpParse \/ FpRecover \/ FpPrompt \/ FpReturn

SpecFps == InitFps /\ [][NextFps]_vars

FpEnded == fp_pc \in {"done", "raised"}

\* C8 as stated: ffprobe_get_fps never ends by raising; it returns a number.
C8_NeverRaises ==
    FpEnded => (fp_result.k = "return" /\ fp_result.v # NaN)

\* C9 as stated: when the prober exits with status 0 and its output holds
\* exactly two integers n and d (d not 0, so that n/d is a number), the call
\* returns n/d and has not prompted.
C9_ReturnsRatio ==
    (/\ FpEnded /\ fp_exit = "ok" /\ Decodes(fp_out)
     /\ Len(NumList(fp_out)) = 2 /\ NumList(fp_out)[2] # 0) =>
        /\ fp_result = Return(<<NumList(fp_out)[1], NumList(fp_out)[2]>>)
        /\ fp_prompts = 0

\* the value C10 asks for after the answer resp: the number entered when it
\* is greater than zero, 0.0 otherwise
C10_Expected(resp) ==
    CASE resp = <<"2", "5">> -> <<25, 1>>
      [] resp = <<"2", ".", "5">> -> <<25, 10>>
      [] resp = <<"i", "n", "f">> -> <<1, 0>>
      [] OTHER -> Zero

\* C10 as stated: after a probe failure the handler caught, the call returns
\* 0.0 without a prompt when input_m is absent; with input_m it prompts once
\* and returns the entry when that is a number above zero, 0.0 when the entry
\* is no number or is not above zero.
C10_Fallback ==
    (fp_pc = "done" /\ fp_caught # "") =>
        IF fp_input_m
        THEN fp_prompts = 1 /\ fp_result = Return(C10_Expected(fp_resp))
        ELSE fp_prompts = 0 /\ fp_result = Return(Zero)


----------------------------------------------------------------------------
(* Two scratch-mode runs of audio_pre_prcs and another user of tempfile,    *)
(* sharing one directory of temporary files                                 *)

RunIds == {1, 2}

CcSource == <<"a", ".", "mp4">>

\* a run at line 190 with n stages to go through
CcFresh(n) ==
    [pc |-> "s_alloc", i |-> 1, n |-> n, temp |-> None, ol |-> <<CcSource>>, held |-> {}]

InitConc ==
    /\ pyver = 3
    /\ fs = {CcSource}
    /\ cc_runs \in [RunIds -> {CcFresh(n) : n \in 1..MaxStages}]
    /\ cc_others = {}
    /\ PrcsIdle /\ SpIdle /\ FpIdle /\ SaIdle /\ WeIdle

CcRest == <<pyver, prcsVars, spVars, fpVars, saVars, weVars>>

\* the output paths run p has been given and has not removed; a run that
\* raised uses none any more
Holding(p) == IF cc_runs[p].pc = "raised" THEN {} ELSE cc_runs[p].held

\* lines 190-192, 201-203: NamedTemporaryFile creates a file under a free name
CcAlloc(p) ==
    /\ cc_runs[p].pc = "s_alloc"
    /\ \E t \in TempNames \ fs :
        /\ fs' = fs \cup {t}
        /\ cc_runs' = [cc_runs EXCEPT ![p].temp = t, ![p].pc = "s_remove"]
    /\ UNCHANGED <<cc_others, CcRest>>

\* lines 193-198, 204-210: the file is removed, its name appended and put
\* into the command as out_
CcRemoveTemp(p) ==
    /\ cc_runs[p].pc = "s_remove"
    /\ fs' = IF IsFile(cc_runs[p].temp, fs) THEN fs \ {cc_runs[p].temp} ELSE fs
    /\ cc_runs' = [cc_runs EXCEPT ![p].ol = Append(@, cc_runs[p].temp),
                                  ![p].held = @ \cup {cc_runs[p].temp},
                                  ![p].pc = "invoke"]
    /\ UNCHANGED <<cc_others, CcRest>>

\* lines 199, 211: check_output starts the tool, or raises OSError
CcInvoke(p) ==
    /\ cc_runs[p].pc = "invoke"
    /\ \E started \in BOOLEAN :
        cc_runs' = [cc_runs EXCEPT ![p].pc = IF started THEN "run" ELSE "raised"]
    /\ UNCHANGED <<fs, cc_others, CcRest>>

\* the running tool writes the file named by out_
CcToolWrite(p) ==
    /\ cc_runs[p].pc = "run"
    /\ fs' = fs \cup {At(cc_runs[p].ol, cc_runs[p].i)}
    /\ cc_runs' = [cc_runs EXCEPT ![p].pc = "written"]
    /\ UNCHANGED <<cc_others, CcRest>>

\* lines 199, 211: the tool exits, with status 0 or another
CcToolExit(p) ==
    /\ cc_runs[p].pc \in {"run", "written"}
    /\ \E ok \in BOOLEAN :
        /\ ok => cc_runs[p].pc = "written"
        /\ cc_runs' = [cc_runs EXCEPT
               ![p].pc = IF ~ok THEN "raised"
                         ELSE IF ScratchRemovesPrev(cc_runs[p].i) THEN "s_del" ELSE "s_loop",
               ![p].i = IF ok /\ ~ScratchRemovesPrev(cc_runs[p].i) THEN @ + 1 ELSE @]
    /\ UNCHANGED <<fs, cc_others, CcRest>>

\* line 212: os.remove(output_list[i - 1])
CcRemovePrev(p) ==
    /\ cc_runs[p].pc = "s_del"
    /\ LET victim == ScratchVictim(cc_runs[p].ol, cc_runs[p].i)
       IN  IF IsFile(victim, fs)
           THEN /\ fs' = fs \ {victim}
                /\ cc_runs' = [cc_runs EXCEPT ![p].held = @ \ {victim},
                                              ![p].i = @ + 1, ![p].pc = "s_loop"]
           ELSE /\ cc_runs' = [cc_runs EXCEPT ![p].pc = "raised"]
                /\ UNCHANGED fs
    /\ UNCHANGED <<cc_others, CcRest>>

\* lines 200, 214: another round, or return output_list[-1]
CcLoop(p) ==
    /\ cc_runs[p].pc = "s_loop"
    /\ cc_runs' = [cc_runs EXCEPT
           ![p].pc = IF cc_runs[p].i <= cc_runs[p].n THEN "s_alloc" ELSE "done"]
    /\ UNCHANGED <<fs, cc_others, CcRest>>

\* another program calls tempfile.mkstemp in the same directory and keeps the file
OtherAlloc ==
    /\ \E t \in TempNames \ fs :
        /\ fs' = fs \cup {t}
        /\ cc_others' = cc_others \cup {t}
    /\ UNCHANGED <<cc_runs, CcRest>>

\* the other program removes a file it created
OtherRelease ==
    /\ \E t \in cc_others :
        /\ fs' = fs \ {t}
        /\ cc_others' = cc_others \ {t}
    /\ UNCHANGED <<cc_runs, CcRest>>

NextConc ==
    \/ \E p \in RunIds :
        \/ CcAlloc(p) \/ CcRemoveTemp(p) \/ CcInvoke(p) \/ CcToolWrite(p)
        \/ CcToolExit(p) \/ CcRemovePrev(p) \/ CcLoop(p)
    \/ OtherAlloc \/ OtherRelease

SpecConc == InitConc /\ [][NextConc]_vars

\* C11 as stated: no two runs hold the same output path at the same time, no
\* run's output path is one another allocator holds, and so no run writes to
\* or deletes a path another is using.
C11_PathsReserved ==
    /\ \A p, q \in RunIds : p # q => Holding(p) \cap Holding(q) = {}
    /\ \A p \in RunIds : Holding(p) \cap cc_others = {}

----------------------------------------------------------------------------
(* source_to_audio, called again and again by one caller                    *)

MaxCalls == 2

\* tempfile.NamedTemporaryFile(suffix=file_ext, ...): names it can give
AudioTempNames ==
    { <<"tmp", "/", "w1", ".", "wav">>, <<"tmp", "/", "w2", ".", "wav">>,
      <<"tmp", "/", "w3", ".", "wav">> }

TempDeleteOnClose == TRUE

\* line 141: delete=False
TempDelete == FALSE

InitAudio ==
    /\ pyver \in {2, 3}
    /\ fs = {CcSource}
    /\ SaIdle
    /\ PrcsIdle /\ SpIdle /\ FpIdle /\ CcIdle /\ WeIdle

SaRest == <<pyver, prcsVars, spVars, fpVars, ccVars, weVars>>

SaBetweenCalls == sa_pc \in {"idle", "done", "raised"}

\* line 131: the caller calls source_to_audio
SaCall ==
    /\ SaBetweenCalls
    /\ Len(sa_returned) < MaxCalls
    /\ sa_pc' = "alloc"
    /\ sa_temp' = None
    /\ sa_result' = Pending
    /\ UNCHANGED <<fs, sa_returned, SaRest>>

\* line 141: NamedTemporaryFile creates a file under a free name
SaAlloc ==
    /\ sa_pc = "alloc"
    /\ \E t \in AudioTempNames \ fs :
        /\ fs' = fs \cup {t}
        /\ sa_temp' = t
    /\ sa_pc' = "invoke"
    /\ UNCHANGED <<sa_result, sa_returned, SaRest>>

\* line 146: check_output cannot start the tool
SaNoStart ==
    /\ sa_pc = "invoke"
    /\ sa_pc' = "raised"
    /\ sa_result' = Raise("OSError")
    /\ UNCHANGED <<fs, sa_temp, sa_returned, SaRest>>

\* line 146: the tool exits with a non-zero status
SaToolExitFail ==
    /\ sa_pc = "invoke"
    /\ sa_pc' = "raised"
    /\ sa_result' = Raise("CalledProcessError")
    /\ UNCHANGED <<fs, sa_temp, sa_returned, SaRest>>

\* line 146: the tool writes over temp.name (-y) and exits with status 0
SaToolExitOk ==
    /\ sa_pc = "invoke"
    /\ fs' = fs \cup {sa_temp}
    /\ sa_pc' = "return"
    /\ UNCHANGED <<sa_temp, sa_result, sa_returned, SaRest>>

\* line 147: return temp.name; the file object goes out of scope
SaReturn ==
    /\ sa_pc = "return"
    /\ fs' = IF TempDelete THEN fs \ {sa_temp} ELSE fs
    /\ sa_result' = Return(sa_temp)
    /\ sa_returned' = Append(sa_returned, sa_temp)
    /\ sa_pc' = "done"
    /\ UNCHANGED <<sa_temp, SaRest>>

\* the caller, who owns the returned files, removes one
CallerRemove ==
    /\ SaBetweenCalls
    /\ \E k \in 1..Len(sa_returned) :
        /\ sa_returned[k] \in fs
        /\ fs' = fs \ {sa_returned[k]}
    /\ sa_pc' = "idle"
    /\ UNCHANGED <<sa_temp, sa_result, sa_returned, SaRest>>

NextAudio ==
    \/ SaCall \/ SaAlloc \/ SaNoStart \/ SaToolExitFail \/ SaToolExitOk
    \/ SaReturn \/ CallerRemove

SpecAudio == InitAudio /\ [][NextAudio]_vars

C12_KeptAtReturn == sa_pc = "done" => sa_result.v \in fs

\* C12 as stated: the returned file is on disk when source_to_audio has
\* returned, and any two calls return two distinct paths.
C12_AlwaysDistinct ==
    /\ C12_KeptAtReturn
    /\ \A j, k \in 1..Len(sa_returned) : j # k => sa_returned[j] # sa_returned[k]

\* C12 amended: the returned file is on disk when source_to_audio has
\* returned, no step of source_to_audio removes a file, and the path a call is
\* given differs from every path that is on disk at that moment, so from every
\* earlier returned path the caller has not removed.
C12_DistinctWhileKept ==
    /\ [](C12_KeptAtReturn)
    /\ [][~SaBetweenCalls => fs \subseteq fs']_vars
    /\ [][sa_pc = "alloc" /\ sa_pc' = "invoke" =>
            /\ sa_temp' \notin fs
            /\ \A k \in 1..Len(sa_returned) :
                 sa_returned[k] \in fs => sa_temp' # sa_returned[k]]_vars

\* two calls have returned, the first file was kept, the paths differ
C12_Witness ==
    /\ sa_pc = "done"
    /\ Len(sa_returned) = 2
    /\ sa_returned[1] \in fs /\ sa_returned[2] \in fs
    /\ sa_returned[1] # sa_returned[2]

----------------------------------------------------------------------------
(* Further properties of audio_pre_prcs *)

\* the paths the tool of stage s wrote to
WrittenBy(s) == {log[k].path : k \in {j \in 1..Len(log) : log[j].op = "write" /\ log[j].stage = s}}

\* the stages for which the user was prompted
Renamed(s) == \E k \in 1..Len(log) : log[k].op = "prompt" /\ log[k].stage = s

\* C13: in both modes the stages are invoked in order; the command of stage s
\* has the output path of stage s (the renamed one when it was renamed) as
\* out_ and, as in_, the source for stage 1 and the output path of stage s-1
\* otherwise, which is the path stage s-1 wrote to; the value returned is the
\* output path of the last stage.
C13_Chained ==
    /\ \A k \in 1..Len(invoked) :
        /\ invoked[k].stage = k
        /\ invoked[k].cmd.out_ = At(output_list, k)
        /\ invoked[k].cmd.in_ = IF k = 1 THEN filename ELSE invoked[k - 1].cmd.out_
        /\ k >= 2 => WrittenBy(k - 1) = {invoked[k].cmd.in_}
        /\ WrittenBy(k) \subseteq {invoked[k].cmd.out_}
    /\ pc = "done" =>
        /\ Len(invoked) = Len(cmds)
        /\ result = Return(invoked[Len(cmds)].cmd.out_)
        /\ WrittenBy(Len(cmds)) = {result.v}

\* a keep-mode run of two stages has returned, its first stage was renamed
C13_Witness ==
    /\ is_keep /\ pc = "done" /\ Len(cmds) = 2 /\ Renamed(1) /\ ~Renamed(2)
    /\ invoked[1].cmd.in_ = <<"a", ".", "mp4">>
    /\ invoked[1].cmd.out_ = <<"alt", ".", "temp", ".", "flac">>
    /\ invoked[2].cmd.in_ = <<"alt", ".", "temp", ".", "flac">>
    /\ result = Return(<<"a", "_temp_", "2", ".", "flac">>)

----------------------------------------------------------------------------
(* which_exe and check_cmd                                                  *)

MaxPathLen == 2     \* most entries of PATH

\* a double quote, the character line 113 strips
Quote == "\""

WeNames == { <<"ffmpeg">>, <<"opt", "/", "ffmpeg">> }

\* entries PATH may hold: two directories, one of them also quoted, and the
\* empty entry
WeEntries == { <<"bin">>, <<"opt">>, <<Quote, "opt", Quote>>, <<>> }

\* the paths at which the model lets something exist
WePaths ==
    { <<"bin", "/", "ffmpeg">>, <<"opt", "/", "ffmpeg">>,
      <<"opt", "/", "ffmpeg", ".", "exe">>, <<"ffmpeg">> }

\* program_name + ".exe"
WithExe(name) == name \o <<".", "exe">>

\* lines 101-105: os.path.isfile(file_path) and os.access(file_path, os.X_OK)
IsExe(p) == IsFile(p, we_files) /\ p \in we_xok

\* line 107: the head os.path.split gives is empty when no separator is in the name
HasDir(name) == \E k \in 1..Len(name) : name[k] = "/"

\* line 113: path.strip('"')
RECURSIVE StripQuotes(_)
StripQuotes(d) ==
    IF d = <<>> THEN d
    ELSE IF Head(d) = Quote THEN StripQuotes(Tail(d))
    ELSE IF d[Len(d)] = Quote THEN StripQuotes(SubSeq(d, 1, Len(d) - 1))
    ELSE d

\* line 114: os.path.join(path, program_name), program_name being relative
Join(d, name) ==
    IF d = <<>> THEN name
    ELSE IF d[Len(d)] = "/" THEN d \o name
    ELSE d \o <<"/">> \o name

\* a scan that goes on to the last entry that matches
RECURSIVE ScanPathLast(_, _, _)
ScanPathLast(name, path, k) ==
    IF k > Len(path) THEN None
    ELSE LET exe_file == Join(StripQuotes(path[k]), name)
             later == ScanPathLast(name, path, k + 1)
         IN  IF later # None THEN later
             ELSE IF IsExe(exe_file) THEN exe_file ELSE None

\* lines 112-117: the loop over the entries of PATH, from entry k on
RECURSIVE ScanPath(_, _, _)
ScanPath(name, path, k) ==
    IF k > Len(path) THEN None
    ELSE LET exe_file == Join(StripQuotes(path[k]), name)
         IN  IF IsExe(exe_file) THEN exe_file ELSE ScanPath(name, path, k + 1)

\* lines 97-117
which_exe(program_name) ==
    IF HasDir(program_name)
    THEN IF IsExe(program_name) THEN program_name ELSE None
    ELSE ScanPath(program_name, we_path, 1)

InitWhich ==
    /\ pyver \in {2, 3}
    /\ fs = {}
    /\ we_name \in WeNames
    /\ we_path \in UNION {[1..n -> WeEntries] : n \in 0..MaxPathLen}
    /\ we_files \in SUBSET WePaths
    /\ we_xok \in SUBSET WePaths
    /\ we_pc = "start"
    /\ we_result = None /\ we_result_exe = None /\ chk_result = None
    /\ PrcsIdle /\ SpIdle /\ FpIdle /\ CcIdle /\ SaIdle

WeRest == <<fs, pyver, prcsVars, spVars, fpVars, ccVars, saVars>>

\* line 124: which_exe(program_name)
ChkWhich ==
    /\ we_pc = "start"
    /\ we_result' = which_exe(we_name)
    /\ we_pc' = IF we_result' # None THEN "ret_name" ELSE "suffix"
    /\ UNCHANGED <<we_name, we_path, we_files, we_xok, we_result_exe, chk_result, WeRest>>

\* line 125: return program_name
ChkReturnName ==
    /\ we_pc = "ret_name"
    /\ chk_result' = we_name
    /\ we_pc' = "done"
    /\ UNCHANGED <<we_name, we_path, we_files, we_xok, we_result, we_result_exe, WeRest>>

\* line 126: which_exe(program_name + ".exe")
ChkWhichExe ==
    /\ we_pc = "suffix"
    /\ we_result_exe' = which_exe(WithExe(we_name))
    /\ we_pc' = IF we_result_exe' # None THEN "ret_exe" ELSE "ret_none"
    /\ UNCHANGED <<we_name, we_path, we_files, we_xok, we_result, chk_result, WeRest>>

\* line 127: return program_name + ".exe"
ChkReturnExe ==
    /\ we_pc = "ret_exe"
    /\ chk_result' = WithExe(we_name)
    /\ we_pc' = "done"
    /\ UNCHANGED <<we_name, we_path, we_files, we_xok, we_result, we_result_exe, WeRest>>

\* line 128: return None
ChkReturnNone ==
    /\ we_pc = "ret_none"
    /\ chk_result' = None
    /\ we_pc' = "done"
    /\ UNCHANGED <<we_name, we_path, we_files, we_xok, we_result, we_result_exe, WeRest>>

NextWhich == ChkWhich \/ ChkReturnName \/ ChkWhichExe \/ ChkReturnExe \/ ChkReturnNone

SpecWhich == InitWhich /\ [][NextWhich]_vars

\* the entry k of PATH as a directory
C14_Dir(k) == IF we_path[k] = <<Quote, "opt", Quote>> THEN <<"opt">> ELSE we_path[k]

\* the file entry k of PATH has for the name
C14_Entry(k, name) == IF C14_Dir(k) = <<>> THEN name ELSE C14_Dir(k) \o <<"/">> \o name

C14_Executable(p) == p \in we_files \cap we_xok

\* what resolving the name should give
C14_Resolves(name) ==
    IF "/" \in {name[k] : k \in 1..Len(name)}
    THEN IF C14_Executable(name) THEN name ELSE None
    ELSE LET hits == {k \in 1..Len(we_path) : C14_Executable(C14_Entry(k, name))}
         IN  IF hits = {} THEN None
             ELSE C14_Entry(CHOOSE k \in hits : \A j \in hits : k <= j, name)

----------------------------------------------------------------------------
(* Further properties of SplitIntoFLACPiece.__call__ *)

\* C15: for a region (s, e) with s >= 0 and any paddings, the command asks
\* for the seek start max(0, s - before) and the duration (e + after) - start,
\* all in ms, and the start is never negative.
C15_SeekAndDuration ==
    (sp_command # NoSplitCmd /\ region[1] >= 0) =>
        LET padded == region[1] - include_before
            start == IF padded < 0 THEN 0 ELSE padded
        IN  /\ sp_command.ss = start
            /\ sp_command.t = (region[2] + include_after) - start
            /\ sp_command.ss >= 0

\* the region (1000, 2000) with the default paddings: start 0.75 s, duration 1.5 s
C15_Witness ==
    /\ sp_pc = "run"
    /\ region = <<1000, 2000>> /\ include_before = 250 /\ include_after = 250
    /\ sp_command.ss = 750 /\ sp_command.t = 1500

\* a region whose padded start falls before 0 is clamped
C15_WitnessClamped ==
    /\ sp_pc = "run"
    /\ region = <<100, 2000>> /\ include_before = 250 /\ include_after = 0
    /\ sp_command.ss = 0 /\ sp_command.t = 2000

----------------------------------------------------------------------------
(* Order of removals and failures in audio_pre_prcs *)

\* the removals of earlier outputs that the run has done after stage s
PrevRemovedAfter(s) ==
    {log[k].path : k \in {j \in 1..Len(log) : log[j].op = "rm_prev" /\ log[j].stage = s}}

\* C16: in scratch mode the output of stage i-1 (i >= 2) is removed only when
\* stage i has been invoked, has written its output and has exited with
\* status 0, and it has been removed when stage i+1 is invoked. When an
\* invocation fails, in either mode, the call ends with the error, takes no
\* further step (so invokes no later stage and removes nothing), the failing
\* step itself removes nothing, and the input of the failed stage is still on
\* disk: the output of the stage before it, or the source when that was there.
C16_RemoveAfterSuccess ==
    /\ [][Count(log', "rm_prev") > Count(log, "rm_prev") =>
            /\ ~is_keep /\ i >= 2 /\ pc = "s_del" /\ pc' = "s_loop"
            /\ Len(invoked) = i
            /\ WrittenBy(i) = {At(output_list, i)}
            /\ At(output_list, i) \in fs
            /\ fs' = fs \ {At(output_list, i - 1)}
            /\ Count(log', "rm_prev") = i - 1]_vars
    /\ [](\A k \in 1..Len(invoked) :
            (~is_keep /\ k >= 3) => PrevRemovedAfter(k - 1) = {At(output_list, k - 2)})
    /\ [][pc' = "raised" => (fs' = fs /\ log' = log /\ result'.k = "raise")]_vars
    /\ [][pc # "raised"]_vars
    /\ [](pc = "raised" =>
            /\ Len(invoked) >= 1
            /\ Len(invoked) >= 2 => Last(invoked).cmd.in_ \in fs
            /\ Len(invoked) = 1 =>
                 /\ Last(invoked).cmd.in_ = filename
                 /\ \A k \in 1..Len(log) : log[k].op \in RemoveOps => log[k].path # filename)

\* a scratch-mode run whose third stage failed: the output of stage 1 has
\* been removed, that of stage 2 is on disk
C16_Witness ==
    /\ ~is_keep /\ pc = "raised" /\ Len(invoked) = 3
    /\ PrevRemovedAfter(2) = {At(output_list, 1)}
    /\ At(output_list, 1) \notin fs
    /\ At(output_list, 2) \in fs

----------------------------------------------------------------------------
(* How audio_pre_prcs invokes its commands *)

\* C17: every stage command, in both modes and at every stage, is invoked
\* through the shell (shell=True).
C17_AlwaysShell == \A k \in 1..Len(invoked) : invoked[k].shell

----------------------------------------------------------------------------
(* The path adopted after a prompt *)

\* the user has just answered the prompt of the stage being set up
JustAnswered == is_keep /\ pc = "k_while" /\ log # <<>> /\ Last(log).op = "answer"

\* the answers of the model without their last extension
C18_Root(resp) ==
    CASE resp = <<"alt", ".", "x", ".", "wav">> -> <<"alt", ".", "x">>
      [] resp = <<"a", "_temp_", "2", ".", "flac">> -> <<"a", "_temp_", "2">>
      [] OTHER -> resp

EndsIn(p, ext) == Len(p) >= Len(ext) /\ SubSeq(p, Len(p) - Len(ext) + 1, Len(p)) = ext

\* C18 as stated: the path adopted after a prompt is the answer without its
\* extension followed by the extension the derived names carry, .flac.
C18_StageExtension ==
    JustAnswered => At(output_list, i) = C18_Root(Last(log).path) \o <<".", "flac">>

\* C18 amended: the path adopted after a prompt is the answer without its
\* last extension followed by .temp.flac; a derived name is the stem followed
\* by _temp_<i>.flac; so both end in .flac, and the renamed one in .temp.flac.
C18_TempFlac ==
    /\ JustAnswered =>
         /\ At(output_list, i) = C18_Root(Last(log).path) \o <<".", "temp", ".", "flac">>
         /\ EndsIn(At(output_list, i), <<".", "temp", ".", "flac">>)
    /\ is_keep =>
         \A k \in 1..(Len(output_list) - 1) :
             /\ EndsIn(At(output_list, k), <<".", "flac">>)
             /\ (~Renamed(k) \/ (k = i /\ pc = "k_while" /\ ~JustAnswered))
                  => At(output_list, k) = C3_Stem(filename) \o <<"_temp_", Digits[k], ".", "flac">>

\* the answer alt.x.wav has been adopted as alt.x.temp.flac
C18_Witness ==
    /\ JustAnswered /\ i = 1
    /\ Last(log).path = <<"alt", ".", "x", ".", "wav">>
    /\ At(output_list, 1) = <<"alt", ".", "x", ".", "temp", ".", "flac">>

----------------------------------------------------------------------------
(* Keep mode without input_m *)

KeepSilent == is_keep /\ ~input_m

\* the derived path of stage s of this call
C19_Derived(s) == C3_Stem(filename) \o <<"_temp_", Digits[s], ".", "flac">>

\* C19: in keep mode without input_m there is never a prompt; a file at the
\* derived path of a stage is removed while that stage is set up, before its
\* command is invoked, and the step from the collision goes on to the command,
\* never to an error; no step touches a file at the derived path of a stage
\* not yet reached, so a call that ends at stage k has removed nothing at the
\* derived paths of the stages after k.
C19_SilentRemoval ==
    /\ [](KeepSilent =>
            /\ Count(log, "prompt") = 0
            /\ \A k \in 1..Len(invoked) : ~invoked[k].out_existed
            /\ \A k \in 1..Len(log) :
                 log[k].op = "rm_collision" =>
                     /\ log[k].stage \in 1..i
                     /\ log[k].path = C19_Derived(log[k].stage)
            /\ pc = "raised" => \A k \in 1..Len(log) : log[k].stage <= Len(invoked))
    /\ [][(KeepSilent /\ pc = "k_remove") =>
            /\ pc' = "k_cmd"
            /\ C19_Derived(i) \notin fs'
            /\ fs' = fs \ {C19_Derived(i)}
            /\ Count(log', "rm_collision") > Count(log, "rm_collision")
                 <=> C19_Derived(i) \in fs]_vars
    /\ [][KeepSilent =>
            \A s \in (i + 1)..Len(Digits) :
                C19_Derived(s) \in fs' <=> C19_Derived(s) \in fs]_vars

\* the first stage found a file at its derived path, removed it and then
\* failed; the file at the derived path of the second stage is still there
C19_Witness ==
    /\ KeepSilent /\ pc = "raised" /\ Len(invoked) = 1 /\ Len(cmds) = 2
    /\ Count(log, "rm_collision") = 1
    /\ C19_Derived(2) \in fs

----------------------------------------------------------------------------
(* Distinctness of the paths of a run *)

Distinct(seq) == \A j, k \in 1..Len(seq) : j # k => seq[j] # seq[k]

\* the removals of the run
Removals == {k \in 1..Len(log) : log[k].op \in RemoveOps}

\* the outputs of the stages before stage s
EarlierOutputs(s) == {At(output_list, j) : j \in 1..(s - 1)}

\* C20 as stated: in every state of every run the paths of the artifact list
\* are pairwise distinct, so no stage output path is the source path, no
\* command has the same path as in_ and out_, no removal of keep mode is
\* aimed at the source or an earlier output, and no removal of scratch mode
\* is aimed at the path returned.
C20_AllDistinct ==
    /\ Distinct(output_list)
    /\ \A k \in 1..Len(invoked) : invoked[k].cmd.in_ # invoked[k].cmd.out_
    /\ \A k \in Removals :
         /\ log[k].path # filename
         /\ is_keep => log[k].path \notin EarlierOutputs(log[k].stage)
         /\ (~is_keep /\ pc = "done" /\ log[k].op = "rm_prev") => log[k].path # result.v

\* the source file is on disk and this run did not put it there
SourceWasThere ==
    /\ filename \in fs
    /\ \A k \in 1..Len(log) : log[k].op = "write" => log[k].path # filename

\* C20 amended: the command of a stage has different paths as in_ and out_
\* from stage 2 on, and at stage 1 when the source file exists. In keep mode,
\* once the path of the current stage is settled, the paths of the list are
\* pairwise distinct when there is no input_m or the source file exists, and
\* no removal is aimed at the source or at an earlier output. In scratch mode
\* a name may come back once its file has been removed, but two successive
\* outputs differ, no removal is aimed at the source, and the removal after
\* the last stage is not aimed at the path returned, which is on disk.
C20_DistinctWhenSettled ==
    /\ \A k \in 1..Len(invoked) :
         (k >= 2 \/ SourceWasThere) => invoked[k].cmd.in_ # invoked[k].cmd.out_
    /\ (is_keep /\ pc # "k_while" /\ (~input_m \/ SourceWasThere)) => Distinct(output_list)
    /\ \A k \in Removals :
         /\ log[k].path # filename
         /\ is_keep => log[k].path \notin EarlierOutputs(log[k].stage)
    /\ ~is_keep =>
         /\ \A k \in 1..(Len(output_list) - 1) : At(output_list, k) # At(output_list, k - 1)
         /\ pc = "done" =>
              /\ result.v \in fs
              /\ \A k \in Removals :
                   (log[k].op = "rm_prev" /\ log[k].stage = Len(cmds)) => log[k].path # result.v

\* a scratch-mode run of three stages has returned; the third output has the
\* name the first had, and it is on disk
C20_Witness ==
    /\ ~is_keep /\ pc = "done" /\ Len(cmds) = 3 /\ filename \in fs
    /\ At(output_list, 3) = At(output_list, 1)
    /\ result.v = At(output_list, 3) /\ result.v \in fs
    /\ Count(log, "rm_prev") = 2

====
